---- MODULE Spec2Model ----
(***************************************************************************)
(* Model of AnalizadorFinanciero                                           *)
(* (src/proyecto_herramientas_de_programación.py).                         *)
(*                                                                         *)
(* A float is modelled as an exact rational <<numerator, denominator>> in  *)
(* lowest terms; the missing value NaN is <<0, 0>>.  A DataFrame is a      *)
(* record [cols, rows]: cols is the sequence of column names and rows the  *)
(* sequence of [date, v] records, v mapping every column name to a cell.   *)
(* The index of a table downloaded from Yahoo Finance is keyed by date:    *)
(* its dates are distinct, in any order.                                   *)
(*                                                                         *)
(* Each method is one action.  yf holds what yf.download hands to the      *)
(* method: for descargar_acciones the closing prices, a column per symbol  *)
(* (data after line 21); for descargar_tasa_interes the Close of the ^TNX  *)
(* quotes, a Series or a one-column DataFrame.  What pandas leaves to its  *)
(* version, idxmax of a column without values, is a choice of the action.  *)
(* op and err record the method called last and how it ended.              *)
(***************************************************************************)
EXTENDS Integers, Sequences, FiniteSets, TLC

\* ---------------------------------------------------------------- bounds
MaxDate == 3
MaxPrice == 2
MaxRate == 2

Dates == 1..MaxDate

\* ---------------------------------------------------------------- floats
NaN == <<0, 0>>
NaT == 0

isna(x) == x[2] = 0
notna(x) == x[2] # 0

Num(n) == <<n, 1>>

RECURSIVE GCD(_, _)
GCD(a, b) == IF b = 0 THEN a ELSE GCD(b, a % b)

Reduce(n, d) == LET g == GCD(n, d) IN <<n \div g, d \div g>>

\* x / k for a float x and a positive number k; NaN / k is NaN
truediv(x, k) == IF isna(x) THEN NaN ELSE Reduce(x[1], x[2] * k)

\* x + y and x < y for non-missing floats
add(x, y) == Reduce(x[1] * y[2] + y[1] * x[2], x[2] * y[2])
lt(x, y) == x[1] * y[2] < y[1] * x[2]

\* ---------------------------------------------------------------- frames
Range(s) == {s[i] : i \in 1..Len(s)}

\* pd.DataFrame()
EmptyFrame == [cols |-> <<>>, rows |-> <<>>]

\* DataFrame.empty: some axis has length 0
empty(frame) == Len(frame.rows) = 0 \/ Len(frame.cols) = 0

\* DataFrame.index and DataFrame[c]
index(frame) == [i \in 1..Len(frame.rows) |-> frame.rows[i].date]
column(frame, c) == [i \in 1..Len(frame.rows) |-> frame.rows[i].v[c]]

\* mutant of dropna_all: how="any", a row goes when one cell is missing
dropna_any(frame) ==
    LET keep(r) == \A c \in Range(frame.cols) : notna(r.v[c])
    IN  [frame EXCEPT !.rows = SelectSeq(frame.rows, keep)]

\* DataFrame.dropna(how="all"): drop the rows whose cells are all missing
dropna_all(frame) ==
    LET keep(r) == \E c \in Range(frame.cols) : notna(r.v[c])
    IN  [frame EXCEPT !.rows = SelectSeq(frame.rows, keep)]

\* Series.dropna() on the one-column frame of a Series
dropna(frame) ==
    LET keep(r) == \A c \in Range(frame.cols) : notna(r.v[c])
    IN  [frame EXCEPT !.rows = SelectSeq(frame.rows, keep)]

RECURSIVE insert_row(_, _)
insert_row(sorted, r) ==
    IF sorted = <<>> THEN <<r>>
    ELSE IF r.date < Head(sorted).date THEN <<r>> \o sorted
    ELSE <<Head(sorted)>> \o insert_row(Tail(sorted), r)

RECURSIVE sort_rows(_)
sort_rows(rows) ==
    IF rows = <<>> THEN <<>>
    ELSE insert_row(sort_rows(Tail(rows)), Head(rows))

\* DataFrame.sort_index(): rows by date ascending
sort_index(frame) == [frame EXCEPT !.rows = sort_rows(frame.rows)]

\* Series.rename(name).to_frame(): a one-column frame under a new name
rename_to_frame(frame, name) ==
    [cols |-> <<name>>,
     rows |-> [i \in 1..Len(frame.rows) |->
                 [date |-> frame.rows[i].date,
                  v |-> (name :> frame.rows[i].v[frame.cols[1]])]]]

\* rate_df["US10Y"] / 10.0
div_column(frame, c, k) ==
    [frame EXCEPT !.rows =
        [i \in 1..Len(frame.rows) |->
            [frame.rows[i] EXCEPT !.v[c] = truediv(@, k)]]]

\* the cell of column c of `other` at date d, missing when d is not in its index
lookup(other, d, c) ==
    IF \E k \in 1..Len(other.rows) : other.rows[k].date = d
    THEN LET k == CHOOSE k \in 1..Len(other.rows) : other.rows[k].date = d
         IN  other.rows[k].v[c]
    ELSE NaN

\* mutant of join_left: how="inner", only the dates both frames have
join_inner(frame, other) ==
    LET both(r) == \E k \in 1..Len(other.rows) : other.rows[k].date = r.date
        kept == SelectSeq(frame.rows, both)
    IN  [cols |-> frame.cols \o other.cols,
         rows |-> [i \in 1..Len(kept) |->
                     [date |-> kept[i].date,
                      v |-> [c \in Range(frame.cols) \cup Range(other.cols) |->
                               IF c \in Range(frame.cols) THEN kept[i].v[c]
                               ELSE lookup(other, kept[i].date, c)]]]]

\* DataFrame.join(other, how="left") on the index
join_left(frame, other) ==
    [cols |-> frame.cols \o other.cols,
     rows |-> [i \in 1..Len(frame.rows) |->
                 LET r == frame.rows[i]
                 IN  [date |-> r.date,
                      v |-> [c \in Range(frame.cols) \cup Range(other.cols) |->
                               IF c \in Range(frame.cols) THEN r.v[c]
                               ELSE lookup(other, r.date, c)]]]]

\* join refuses two frames that share a column name
overlap(frame, other) == Range(frame.cols) \cap Range(other.cols) # {}

\* mutant of ffill_rows: limit=1, a cell is filled from the row before only
RECURSIVE ffill_limit1(_, _, _)
ffill_limit1(rows, last, cols) ==
    IF rows = <<>> THEN <<>>
    ELSE LET r == Head(rows)
             filled == [c \in cols |-> IF isna(r.v[c]) THEN last[c] ELSE r.v[c]]
         IN  <<[date |-> r.date, v |-> filled]>> \o ffill_limit1(Tail(rows), r.v, cols)

RECURSIVE ffill_rows(_, _, _)
ffill_rows(rows, last, cols) ==
    IF rows = <<>> THEN <<>>
    ELSE LET r == Head(rows)
             filled == [c \in cols |-> IF isna(r.v[c]) THEN last[c] ELSE r.v[c]]
         IN  <<[date |-> r.date, v |-> filled]>> \o ffill_rows(Tail(rows), filled, cols)

\* DataFrame.ffill(): every column takes its last valid value forward
ffill(frame) ==
    [frame EXCEPT !.rows =
        ffill_rows(frame.rows, [c \in Range(frame.cols) |-> NaN], Range(frame.cols))]

\* ---------------------------------------------------------------- series
RECURSIVE nanmax(_, _)
nanmax(vals, best) ==
    IF vals = <<>> THEN best
    ELSE LET x == Head(vals)
         IN  nanmax(Tail(vals),
                    IF notna(x) /\ (isna(best) \/ lt(best, x)) THEN x ELSE best)

\* Series.max(): the greatest non-missing value, NaN when there is none
max(vals) == nanmax(vals, NaN)

\* mutant of argmax: the last occurrence of the maximum
RECURSIVE argmax_last(_, _, _, _)
argmax_last(vals, i, best, at) ==
    IF i > Len(vals) THEN at
    ELSE IF notna(vals[i]) /\ (isna(best) \/ ~lt(vals[i], best))
         THEN argmax_last(vals, i + 1, vals[i], i)
         ELSE argmax_last(vals, i + 1, best, at)

RECURSIVE argmax(_, _, _, _)
argmax(vals, i, best, at) ==
    IF i > Len(vals) THEN at
    ELSE IF notna(vals[i]) /\ (isna(best) \/ lt(best, vals[i]))
         THEN argmax(vals, i + 1, vals[i], i)
         ELSE argmax(vals, i + 1, best, at)

\* Series.idxmax(): the label of the first occurrence of the maximum
idxmax(idx, vals) ==
    LET at == argmax(vals, 1, NaN, 0)
    IN  IF at = 0 THEN NaT ELSE idx[at]

RECURSIVE nansum(_)
nansum(vals) ==
    IF vals = <<>> THEN Num(0)
    ELSE IF isna(Head(vals)) THEN nansum(Tail(vals))
    ELSE add(Head(vals), nansum(Tail(vals)))

count(vals) == Cardinality({i \in 1..Len(vals) : notna(vals[i])})

\* mutant of mean: the missing cells count in the number of values
mean_con_faltantes(vals) ==
    IF count(vals) = 0 THEN NaN ELSE truediv(nansum(vals), Len(vals))

\* Series.mean(): sum of the non-missing values over their number
mean(vals) == IF count(vals) = 0 THEN NaN ELSE truediv(nansum(vals), count(vals))

\* ---------------------------------------------------------------- inputs
\* the sequences over S without repetition
InjSeqs(S) ==
    {s \in UNION {[1..n -> S] : n \in 0..Cardinality(S)} :
        \A i, j \in 1..Len(s) : i # j => s[i] # s[j]}

\* the rows of cells a table with the given columns can hold
Cells(cols, cells) == [Range(cols) -> cells]

\* the tables with the given columns, their rows among vals and their dates
\* a sequence of ds
Tables(cols, vals, ds) ==
    UNION {{[cols |-> cols,
             rows |-> [i \in 1..Len(d) |-> [date |-> d[i], v |-> vs[i]]]] :
               vs \in [1..Len(d) -> vals]} :
           d \in ds}

Ascending(S) == {s \in InjSeqs(S) : \A i, j \in 1..Len(s) : i < j => s[i] < s[j]}

PriceCells == {NaN} \cup {Num(10 * p) : p \in 1..MaxPrice}
RawRateCells == {NaN} \cup {Num(20 * r) : r \in 1..MaxRate}

SymbolLists == {<<"A">>, <<"B", "A">>}

\* the closing prices Yahoo Finance returns for a symbol list: a column per symbol
yf_columns(syms) == SelectSeq(<<"A", "B">>, LAMBDA c : c \in Range(syms))

\* ---------------------------------------------------------------- errors
ErrEmptyData == "ValueError: No se obtuvieron datos de acciones"
ErrNoStocks == "ValueError: stocks_df esta vacio"
ErrOverlap == "ValueError: columns overlap but no suffix specified"
ErrScalar == "AttributeError: scalar has no attribute dropna"
ErrKey == "KeyError"
ErrAllNA == "ValueError: all-NA idxmax"
NoError == "none"

\* ---------------------------------------------------------------- state
VARIABLES
    symbols,    \* self.symbols
    stocks_df,  \* self.stocks_df
    rate_df,    \* self.rate_df
    yf,         \* what yf.download returned last: the closing prices of the
                \* symbols (close), the ^TNX quotes (tnx), and whether the
                \* Close of the quote table is a DataFrame (multi) or a Series
    op,         \* the method called last
    err,        \* the exception it raised, NoError when it returned
    df,         \* the local df of unir_datos after the join, before the fill
    ret         \* what resumen_list_comprehensions returned

vars == <<symbols, stocks_df, rate_df, yf, op, err, df, ret>>

NoRet == <<>>

\* __init__
construct(syms) ==
    /\ symbols = syms
    /\ stocks_df = EmptyFrame
    /\ rate_df = EmptyFrame
    /\ op = "__init__"
    /\ err = NoError
    /\ df = EmptyFrame
    /\ ret = NoRet

\* mutant of descargar_acciones: the table is stored before it is checked
descargar_acciones_sin_validar(close) ==
    LET valid == sort_index(dropna_all(close))
    IN  /\ op' = "descargar_acciones"
        /\ yf' = [yf EXCEPT !.close = close]
        /\ err' = IF empty(valid) THEN ErrEmptyData ELSE NoError
        /\ stocks_df' = valid
        /\ df' = EmptyFrame
        /\ ret' = NoRet
        /\ UNCHANGED <<symbols, rate_df>>

\* descargar_acciones, yf.download returning the closing prices `close`
descargar_acciones(close) ==
    LET valid == sort_index(dropna_all(close))
    IN  /\ op' = "descargar_acciones"
        /\ yf' = [yf EXCEPT !.close = close]
        /\ IF empty(valid)
           THEN /\ err' = ErrEmptyData
                /\ UNCHANGED stocks_df
           ELSE /\ err' = NoError
                /\ stocks_df' = valid
        /\ df' = EmptyFrame
        /\ ret' = NoRet
        /\ UNCHANGED <<symbols, rate_df>>

\* DataFrame.squeeze() of a one-column frame is a scalar when it has one row
squeeze_is_scalar(frame) == Len(frame.cols) = 1 /\ Len(frame.rows) = 1

\* close.dropna().rename("US10Y").to_frame(), / 10.0, sort_index()
normalizar_tasa(close) ==
    sort_index(div_column(rename_to_frame(dropna(close), "US10Y"), "US10Y", 10))

\* mutant of descargar_tasa_interes: no quotes, and the stored series is kept
descargar_tasa_sin_reset(tnx, multi) ==
    /\ op' = "descargar_tasa_interes"
    /\ yf' = [yf EXCEPT !.tnx = tnx, !.multi = multi]
    /\ IF empty(tnx)
       THEN /\ err' = NoError
            /\ UNCHANGED rate_df
       ELSE IF multi /\ squeeze_is_scalar(tnx)
       THEN /\ err' = ErrScalar
            /\ UNCHANGED rate_df
       ELSE /\ err' = NoError
            /\ rate_df' = normalizar_tasa(tnx)
    /\ df' = EmptyFrame
    /\ ret' = NoRet
    /\ UNCHANGED <<symbols, stocks_df>>

\* descargar_tasa_interes, yf.download returning the quotes `tnx`, whose
\* Close is a DataFrame (multi) or a Series
descargar_tasa_interes(tnx, multi) ==
    /\ op' = "descargar_tasa_interes"
    /\ yf' = [yf EXCEPT !.tnx = tnx, !.multi = multi]
    /\ IF empty(tnx)
       THEN /\ err' = NoError
            /\ rate_df' = EmptyFrame
       ELSE IF multi /\ squeeze_is_scalar(tnx)
       THEN /\ err' = ErrScalar
            /\ UNCHANGED rate_df
       ELSE /\ err' = NoError
            /\ rate_df' = normalizar_tasa(tnx)
    /\ df' = EmptyFrame
    /\ ret' = NoRet
    /\ UNCHANGED <<symbols, stocks_df>>

\* unir_datos
unir_datos ==
    /\ op' = "unir_datos"
    /\ ret' = NoRet
    /\ IF empty(stocks_df)
       THEN /\ err' = ErrNoStocks
            /\ df' = EmptyFrame
            /\ UNCHANGED stocks_df
       ELSE IF ~empty(rate_df) /\ overlap(stocks_df, rate_df)
       THEN /\ err' = ErrOverlap
            /\ df' = EmptyFrame
            /\ UNCHANGED stocks_df
       ELSE LET joined == IF ~empty(rate_df) THEN join_left(stocks_df, rate_df)
                          ELSE stocks_df
            IN  /\ err' = NoError
                /\ df' = joined
                /\ stocks_df' = ffill(joined)
    /\ UNCHANGED <<symbols, rate_df, yf>>

\* mutant of resumen: the lists follow the columns of the table
resumen_por_columna(frame, syms) ==
    LET cs == yf_columns(syms)
        maximos == [i \in 1..Len(cs) |-> max(column(frame, cs[i]))]
        fechas_maximos ==
            [i \in 1..Len(cs) |-> idxmax(index(frame), column(frame, cs[i]))]
        promedios == [i \in 1..Len(cs) |-> mean(column(frame, cs[i]))]
        resumen_maximos ==
            [i \in 1..Len(cs) |->
                <<cs[i], max(column(frame, cs[i])),
                  idxmax(index(frame), column(frame, cs[i]))>>]
    IN  <<maximos, fechas_maximos, promedios, resumen_maximos>>

\* the four lists of resumen_list_comprehensions
resumen(frame, syms) ==
    LET maximos == [i \in 1..Len(syms) |-> max(column(frame, syms[i]))]
        fechas_maximos ==
            [i \in 1..Len(syms) |-> idxmax(index(frame), column(frame, syms[i]))]
        promedios == [i \in 1..Len(syms) |-> mean(column(frame, syms[i]))]
        resumen_maximos ==
            [i \in 1..Len(syms) |->
                <<syms[i], max(column(frame, syms[i])),
                  idxmax(index(frame), column(frame, syms[i]))>>]
    IN  <<maximos, fechas_maximos, promedios, resumen_maximos>>

\* some requested column has no valid value
all_na(frame, syms) ==
    \E i \in 1..Len(syms) : count(column(frame, syms[i])) = 0

\* resumen_list_comprehensions; idxmax of an all-missing column raises in
\* pandas 3 and returns NaN before (idxmax_raises)
resumen_list_comprehensions ==
    \E idxmax_raises \in BOOLEAN :
        /\ op' = "resumen_list_comprehensions"
        /\ df' = EmptyFrame
        /\ IF \E i \in 1..Len(symbols) : symbols[i] \notin Range(stocks_df.cols)
           THEN /\ err' = ErrKey
                /\ ret' = NoRet
           ELSE IF idxmax_raises /\ all_na(stocks_df, symbols)
           THEN /\ err' = ErrAllNA
                /\ ret' = NoRet
           ELSE /\ err' = NoError
                /\ ret' = resumen(stocks_df, symbols)
        /\ UNCHANGED <<symbols, stocks_df, rate_df, yf>>

\* the calls when Yahoo Finance serves the same data at every download
Calls ==
    \/ descargar_acciones(yf.close)
    \/ descargar_tasa_interes(yf.tnx, yf.multi)
    \/ unir_datos
    \/ resumen_list_comprehensions

\* ------------------------------------------------------- specifications
\* Each specification draws the data Yahoo Finance serves from the tables
\* that bear on the methods it is about.  Where the value of a price or of a
\* rate plays no part, a column is quoted at one price (OnePrice) and the
\* rate at one or two values.
NoQuotes == [cols |-> <<"Close">>, rows |-> <<>>]
NoPrices == [cols |-> <<"A">>, rows |-> <<>>]
OnePrice == {NaN, Num(10)}

\* the prices of A and B on a date, B quoted at one price
OnePriceB == {v \in Cells(<<"A", "B">>, PriceCells) : v["B"] \in OnePrice}

\* the prices of A and B on a date with a price
SomePrice == {v \in Cells(<<"A", "B">>, OnePrice) : \E c \in {"A", "B"} : notna(v[c])}

\* Spec: one symbol, any sequence of calls, the data served changing from
\* one download to the next (tables in date order, one date short of Dates)
LifeDates == Ascending(1..(MaxDate - 1))
LifeClose == Tables(<<"A">>, Cells(<<"A">>, OnePrice), LifeDates)
LifeTnx == Tables(<<"Close">>, Cells(<<"Close">>, {Num(20)}), LifeDates)

Init ==
    /\ construct(<<"A">>)
    /\ yf \in [close : LifeClose, tnx : LifeTnx, multi : BOOLEAN]

Next ==
    \/ \E close \in LifeClose : descargar_acciones(close)
    \/ \E tnx \in LifeTnx, multi \in BOOLEAN : descargar_tasa_interes(tnx, multi)
    \/ unir_datos
    \/ resumen_list_comprehensions

Spec == Init /\ [][Next]_vars

\* SpecAcciones: closing prices in any row order, rows without a price and
\* rows with one price of two among them; no ^TNX quotes
InitAcciones ==
    /\ \E syms \in SymbolLists : construct(syms)
    /\ yf \in [close : Tables(yf_columns(symbols),
                               Cells(yf_columns(symbols), OnePrice), InjSeqs(Dates)),
               tnx : {NoQuotes},
               multi : {TRUE}]

SpecAcciones == InitAcciones /\ [][Calls]_vars

\* SpecResumen: two symbols listed against the order of the columns, closing
\* prices in date order, any price for A; no ^TNX quotes
InitResumen ==
    /\ construct(<<"B", "A">>)
    /\ yf \in [close : Tables(<<"A", "B">>, OnePriceB, Ascending(Dates)),
               tnx : {NoQuotes},
               multi : {TRUE}]

SpecResumen == InitResumen /\ [][Calls]_vars

\* SpecTasa: any ^TNX quotes, in any row order; no closing prices
InitTasa ==
    /\ construct(<<"A">>)
    /\ yf \in [close : {NoPrices},
               tnx : Tables(<<"Close">>, Cells(<<"Close">>, RawRateCells),
                            InjSeqs(Dates)),
               multi : BOOLEAN]

SpecTasa == InitTasa /\ [][Calls]_vars

\* SpecUnir: two symbols; closing prices in date order, some price on every
\* date; ^TNX quotes in date order at two rates, none missing
InitUnir ==
    /\ construct(<<"B", "A">>)
    /\ yf \in [close : Tables(<<"A", "B">>, SomePrice, Ascending(Dates)),
               tnx : Tables(<<"Close">>, Cells(<<"Close">>, {Num(20), Num(40)}),
                            Ascending(Dates)),
               multi : {FALSE}]

SpecUnir == InitUnir /\ [][Calls]_vars

\* ------------------------------------------------------------ properties
Sorted(frame) ==
    \A i, j \in 1..Len(frame.rows) : i < j => frame.rows[i].date < frame.rows[j].date

DateSet(frame) == {frame.rows[i].date : i \in 1..Len(frame.rows)}

\* the rows of a table in which some symbol has a price
Usable(frame) ==
    {i \in 1..Len(frame.rows) : \E c \in Range(frame.cols) : notna(frame.rows[i].v[c])}

\* the rows of a quote table whose Close is not missing
Quoted(frame) == {i \in 1..Len(frame.rows) : notna(frame.rows[i].v["Close"])}

\* x is raw / 10
IsTenth(x, raw) == x[2] > 0 /\ x[1] * raw[2] * 10 = raw[1] * x[2]

\* C1: a unir_datos that finds a price table stored, with no rate column yet,
\* succeeds; and a unir_datos that succeeds leaves the dates of the price
\* table as they were, each once and ascending: the dates of the rate series
\* alone are not in it, and the joined table holds the symbol columns of the
\* price table cell for cell, so that every symbol column keeps its length.
C1_UnirConservaFilas ==
    [][/\ (op' = "unir_datos" /\ ~empty(stocks_df)
              /\ "US10Y" \notin Range(stocks_df.cols)) => err' = NoError
       /\ (op' = "unir_datos" /\ err' = NoError) =>
            /\ index(stocks_df') = index(stocks_df)
            /\ Sorted(stocks_df')
            /\ DateSet(rate_df) \ DateSet(stocks_df) # {} =>
                  DateSet(stocks_df') \cap (DateSet(rate_df) \ DateSet(stocks_df)) = {}
            /\ \A c \in Range(stocks_df.cols) :
                  /\ column(df', c) = column(stocks_df, c)
                  /\ Len(column(stocks_df', c)) = Len(stocks_df.rows)]_vars

\* a join that met dates of the rate series alone and dates without a rate
C1_Witness ==
    /\ op = "unir_datos" /\ err = NoError
    /\ "US10Y" \in Range(stocks_df.cols)
    /\ DateSet(rate_df) \ DateSet(stocks_df) # {}
    /\ DateSet(stocks_df) \ DateSet(rate_df) # {}
    /\ Len(stocks_df.rows) >= 2

\* the last row before row i whose cell of column c is not missing, 0 if none
LastValid(frame, c, i) ==
    LET before == {j \in 1..(i - 1) : notna(frame.rows[j].v[c])}
    IN  IF before = {} THEN 0 ELSE CHOOSE j \in before : \A k \in before : k <= j

\* C2: after a unir_datos that succeeded, in every column of the joined
\* table (symbols and rate) a cell that was not missing keeps its value, a
\* missing cell holds the value of the last earlier row whose cell in that
\* column was not missing, and a missing cell with none before it is missing;
\* the rate column of the joined table holds the rate of each date the rate
\* series has and is missing elsewhere.
C2_RellenoHaciaAdelante ==
    (op = "unir_datos" /\ err = NoError) =>
        /\ stocks_df.cols = df.cols
        /\ index(stocks_df) = index(df)
        /\ \A c \in Range(df.cols) : \A i \in 1..Len(df.rows) :
              LET was == df.rows[i].v[c]
                  now == stocks_df.rows[i].v[c]
                  j == LastValid(df, c, i)
              IN  /\ notna(was) => now = was
                  /\ (isna(was) /\ j > 0) => now = df.rows[j].v[c]
                  /\ (isna(was) /\ j = 0) => isna(now)
        /\ "US10Y" \in Range(df.cols) =>
              \A i \in 1..Len(df.rows) :
                  LET at == {k \in 1..Len(rate_df.rows) :
                                rate_df.rows[k].date = df.rows[i].date}
                  IN  /\ at = {} => isna(df.rows[i].v["US10Y"])
                      /\ \A k \in at : df.rows[i].v["US10Y"] = rate_df.rows[k].v["US10Y"]

\* a symbol column with a leading gap that stays, and a rate column whose gap
\* after two different rates is filled with the later one
C2_Witness ==
    /\ op = "unir_datos" /\ err = NoError
    /\ Len(df.rows) = 3 /\ "US10Y" \in Range(df.cols)
    /\ isna(df.rows[1].v["A"]) /\ isna(stocks_df.rows[1].v["A"])
    /\ column(df, "US10Y") = <<Num(2), Num(4), NaN>>
    /\ column(stocks_df, "US10Y") = <<Num(2), Num(4), Num(4)>>
    /\ \E i \in 2..3 : isna(df.rows[i].v["B"]) /\ notna(stocks_df.rows[i].v["B"])

\* C3 (as claimed): whenever the ^TNX quotes are not empty,
\* descargar_tasa_interes stores the series of the dates whose quote is not
\* missing, ascending, each value the quote divided by 10.
C3_TasaNormalizada ==
    (op = "descargar_tasa_interes" /\ ~empty(yf.tnx)) =>
        /\ err = NoError
        /\ DateSet(rate_df) = {yf.tnx.rows[i].date : i \in Quoted(yf.tnx)}
        /\ Len(rate_df.rows) = Cardinality(Quoted(yf.tnx))
        /\ Sorted(rate_df)
        /\ \A k \in 1..Len(rate_df.rows) : \A i \in Quoted(yf.tnx) :
              rate_df.rows[k].date = yf.tnx.rows[i].date =>
                  IsTenth(rate_df.rows[k].v["US10Y"], yf.tnx.rows[i].v["Close"])

\* C4: descargar_acciones raises the empty-data error exactly when no row of
\* the closing prices has a price for some symbol; otherwise it returns and
\* the stored table holds exactly the rows with a price, by date ascending.
C4_FiltradoAcciones ==
    op = "descargar_acciones" =>
        /\ err \in {NoError, ErrEmptyData}
        /\ err = ErrEmptyData <=> Usable(yf.close) = {}
        /\ err = NoError =>
              /\ stocks_df.cols = yf.close.cols
              /\ Range(stocks_df.rows) = {yf.close.rows[i] : i \in Usable(yf.close)}
              /\ Len(stocks_df.rows) = Cardinality(Usable(yf.close))
              /\ Sorted(stocks_df)

\* two symbols, closing prices out of date order with a row to drop and a row
\* that has one price of the two
C4_Witness ==
    /\ op = "descargar_acciones" /\ err = NoError
    /\ Len(symbols) = 2
    /\ ~Sorted(yf.close)
    /\ Len(stocks_df.rows) = 2 /\ Len(yf.close.rows) = 3
    /\ \E i \in 1..2 : isna(stocks_df.rows[i].v["A"]) /\ notna(stocks_df.rows[i].v["B"])

\* C5: a descargar_tasa_interes that gets no quotes returns and leaves the
\* rate series empty; and a unir_datos that finds a price table stored and the
\* rate series empty succeeds and keeps the columns of the price table: it
\* adds no rate column.
C5_SinTasa ==
    [][/\ (op' = "descargar_tasa_interes" /\ empty(yf'.tnx)) =>
              (err' = NoError /\ rate_df' = EmptyFrame)
       /\ (op' = "unir_datos" /\ ~empty(stocks_df) /\ empty(rate_df)) =>
              /\ err' = NoError
              /\ stocks_df'.cols = stocks_df.cols
              /\ df' = stocks_df
              /\ "US10Y" \notin Range(stocks_df.cols) =>
                    "US10Y" \notin Range(stocks_df'.cols)]_vars

\* unir_datos after a download that got no quotes: the symbol column alone
C5_Witness ==
    /\ op = "unir_datos" /\ err = NoError
    /\ empty(yf.tnx) /\ rate_df = EmptyFrame
    /\ stocks_df.cols = <<"A">>
    /\ Len(stocks_df.rows) >= 2

\* C10: a descargar_acciones or unir_datos that raises leaves the stored
\* price table and the stored rate series as they were.
C10_FalloSinEfecto ==
    [][(op' \in {"descargar_acciones", "unir_datos"} /\ err' # NoError) =>
          (stocks_df' = stocks_df /\ rate_df' = rate_df)]_vars

\* a download that failed with a price table and a rate series stored
C10_Witness ==
    /\ op = "descargar_acciones" /\ err = ErrEmptyData
    /\ Len(yf.close.rows) >= 1
    /\ ~empty(stocks_df) /\ ~empty(rate_df)

\* the rows of a column that hold a value
Valid(col) == {k \in 1..Len(col) : notna(col[k])}

\* x is the greatest value of the column, missing when it has none
IsMaxOf(col, x) ==
    IF Valid(col) = {} THEN isna(x)
    ELSE /\ \E k \in Valid(col) : col[k] = x
         /\ \A k \in Valid(col) : ~lt(x, col[k])

\* d is the earliest date at which the column equals x, NaT when it has no value
IsFirstDateOf(frame, col, x, d) ==
    IF Valid(col) = {} THEN d = NaT
    ELSE \E k \in Valid(col) :
            /\ col[k] = x
            /\ frame.rows[k].date = d
            /\ \A j \in Valid(col) : col[j] = x => frame.rows[k].date <= frame.rows[j].date

\* the sum of the (whole) values of the rows S of a column
RECURSIVE Total(_, _)
Total(col, S) ==
    IF S = {} THEN 0
    ELSE LET k == CHOOSE k \in S : TRUE IN col[k][1] + Total(col, S \ {k})

\* m is the sum of the values of the column over their number, missing when
\* it has none (the prices of the model are whole numbers)
IsMeanOf(col, m) ==
    IF Valid(col) = {} THEN isna(m)
    ELSE /\ \A k \in Valid(col) : col[k][2] = 1
         /\ m[2] > 0
         /\ m[1] * Cardinality(Valid(col)) = Total(col, Valid(col)) * m[2]

Returned == op = "resumen_list_comprehensions" /\ err = NoError

\* C6: when resumen_list_comprehensions returns, for every symbol whose
\* column has a value the maximum is the greatest value of the column and the
\* max-date the earliest date at which the column equals it.
C6_MaximoYPrimeraFecha ==
    Returned =>
        \A i \in 1..Len(symbols) :
            LET col == column(stocks_df, symbols[i])
            IN  Valid(col) # {} =>
                    /\ IsMaxOf(col, ret[1][i])
                    /\ IsFirstDateOf(stocks_df, col, ret[1][i], ret[2][i])

\* a column whose maximum is on two dates, the first of them not the first row
C6_Witness ==
    /\ Returned
    /\ \E i \in 1..Len(symbols) :
          /\ column(stocks_df, symbols[i]) = <<Num(10), Num(20), Num(20)>>
          /\ ret[1][i] = Num(20)
          /\ ret[2][i] = stocks_df.rows[2].date

\* C7: when resumen_list_comprehensions returns, for every symbol whose
\* column has a value the mean is the sum of the values of the column over
\* their number, the missing cells in neither: [10, missing, 20] gives 15.
C7_PromedioSinFaltantes ==
    Returned =>
        \A i \in 1..Len(symbols) :
            LET col == column(stocks_df, symbols[i])
            IN  /\ Valid(col) # {} => IsMeanOf(col, ret[3][i])
                /\ col = <<Num(10), NaN, Num(20)>> => ret[3][i] = Num(15)

\* the column [10, missing, 20] and its mean 15
C7_Witness ==
    /\ Returned
    /\ \E i \in 1..Len(symbols) :
          /\ column(stocks_df, symbols[i]) = <<Num(10), NaN, Num(20)>>
          /\ ret[3][i] = Num(15)

\* the four lists have the length of symbols, and entry i of the first three
\* is the maximum, the max-date and the mean of the column of symbol i
\* (missing when the column has no value)
ListsFollowSymbols ==
    /\ Len(ret) = 4
    /\ \A n \in 1..4 : Len(ret[n]) = Len(symbols)
    /\ \A i \in 1..Len(symbols) :
          LET col == column(stocks_df, symbols[i])
          IN  /\ IsMaxOf(col, ret[1][i])
              /\ IsFirstDateOf(stocks_df, col, ret[1][i], ret[2][i])
              /\ IsMeanOf(col, ret[3][i])

\* C8 (as claimed): the lists follow symbols, and record i is the tuple
\* (symbol i, its maximum, its max-date, its mean).
C8_RegistroConPromedio ==
    Returned =>
        /\ ListsFollowSymbols
        /\ \A i \in 1..Len(symbols) :
              ret[4][i] = <<symbols[i], ret[1][i], ret[2][i], ret[3][i]>>

\* C8 (amended): the lists follow symbols, and record i is the tuple
\* (symbol i, its maximum, its max-date): it holds no mean.
C8_RegistroSinPromedio ==
    Returned =>
        /\ ListsFollowSymbols
        /\ \A i \in 1..Len(symbols) :
              ret[4][i] = <<symbols[i], ret[1][i], ret[2][i]>>

\* two symbols, listed against the order of the columns, that differ in
\* maximum, max-date and mean
C8_Witness ==
    /\ Returned
    /\ symbols = <<"B", "A">> /\ stocks_df.cols = <<"A", "B">>
    /\ ret[1][1] # ret[1][2] /\ ret[2][1] # ret[2][2] /\ ret[3][1] # ret[3][2]
    /\ ret[4][1][1] = "B"

\* C9 (as claimed): resumen_list_comprehensions raises when the column of
\* some requested symbol has no value.
C9_ColumnaVaciaFalla ==
    (/\ op = "resumen_list_comprehensions"
     /\ \E i \in 1..Len(symbols) :
           /\ symbols[i] \in Range(stocks_df.cols)
           /\ Valid(column(stocks_df, symbols[i])) = {})
        => err # NoError

====
